---- MODULE Spec2Model ----
(***************************************************************************)
(* A model of celeste-converter-go: the DATA <-> PNG codec                 *)
(* (pkg/converter/graphics_converter.go) and the concurrent batch pipeline *)
(* (FilesConverter.convert).                                               *)
(*                                                                         *)
(* Two specifications share the module.  CodecSpec runs single conversions *)
(* and chains of conversions (the round trips of the tests) one loop       *)
(* iteration at a time.  Spec runs one batch call of FilesConverter with   *)
(* its worker goroutines interleaved.                                      *)
(***************************************************************************)
EXTENDS Integers, Sequences, FiniteSets, TLC

\* ------------------------------------------------------------------------
\* Bounds of the model and constants of the program
\* ------------------------------------------------------------------------

\* Drawn canvases have width * height <= MaxPixels.
MaxPixels == 4

\* Drawn DATA bodies have at most MaxBodyLen bytes.
MaxBodyLen == 8

\* graphics_converter.go:47: the largest accepted width and height.
MaxDim == 8192

\* graphics_converter.go:82 and :218: the longest run.
MaxRun == 256

\* The tolerance of the round-trip tests (graphics_converter_test.go:55).
Tolerance == 5

Min(a, b) == IF a < b THEN a ELSE b

Abs(a) == IF a < 0 THEN -a ELSE a

\* ------------------------------------------------------------------------
\* Colours and images (image/color, image.RGBA, image.NRGBA as the code
\* uses them)
\* ------------------------------------------------------------------------

\* color.RGBA{R, G, B, A} / color.NRGBA{R, G, B, A}: four 8-bit channels.
Colour(r, g, b, a) == [R |-> r, G |-> g, B |-> b, A |-> a]

\* The zero colour: a fresh image.NewRGBA canvas, and At() out of bounds.
ZeroColour == Colour(0, 0, 0, 0)

\* An image: its dynamic type (typ), its bounds (0,0)-(w,h) and its pixels
\* in the order of the Pix slice, pixel (x, y) at index y*w + x + 1.
\* typ is "RGBA" (*image.RGBA, alpha-premultiplied), "NRGBA" (*image.NRGBA),
\* "Paletted" (*image.Paletted, whose palette entries are color.NRGBA when
\* the PNG has a tRNS chunk), "NRGBA64" (*image.NRGBA64, a 16-bit PNG with
\* alpha, each channel v holding the 16 bits v * 257), "corrupt" (a file
\* png.Decode rejects) or "none".
Image(t, w, h, pix) == [typ |-> t, w |-> w, h |-> h, pix |-> pix]

NoImage == Image("none", 0, 0, <<>>)

CorruptPng == Image("corrupt", 0, 0, <<>>)

\* (x, y) lies in the bounds; img.SetRGBA drops a write outside them.
InBounds(img, x, y) == x >= 0 /\ x < img.w /\ y >= 0 /\ y < img.h

PixOffset(img, x, y) == y * img.w + x + 1

\* img.At(x, y): the zero colour outside the bounds.
At(img, x, y) ==
    IF InBounds(img, x, y) THEN img.pix[PixOffset(img, x, y)] ELSE ZeroColour

\* c.RGBA(): the alpha-premultiplied 16-bit channels of a pixel of img.
\* color.RGBA is premultiplied already; color.NRGBA multiplies by alpha,
\* and so does color.NRGBA64: (R*257 * A*257) / 65535 = (R*257 * A) / 255.
RGBA16(img, c) ==
    IF img.typ = "RGBA"
    THEN [r |-> c.R * 257, g |-> c.G * 257, b |-> c.B * 257, a |-> c.A * 257]
    ELSE [r |-> (c.R * 257 * c.A) \div 255,
          g |-> (c.G * 257 * c.A) \div 255,
          b |-> (c.B * 257 * c.A) \div 255,
          a |-> c.A * 257]

\* uint8(v >> 8)
Hi8(v) == (v \div 256) % 256

\* getRGBA(img, x, y): the premultiplied channels cut to 8 bits.
getRGBA(img, x, y) ==
    LET c == RGBA16(img, At(img, x, y))
    IN  Colour(Hi8(c.r), Hi8(c.g), Hi8(c.b), Hi8(c.a))

\* A mutant of hasAlphaChannel: the type alone decides.
hasAlphaChannelTypeOnly(img) == img.typ \in {"RGBA", "NRGBA"}

\* hasAlphaChannel(img): *image.RGBA or *image.NRGBA with a pixel whose
\* 16-bit alpha is below 0xffff.
hasAlphaChannel(img) ==
    /\ img.typ \in {"RGBA", "NRGBA"}
    /\ \E y \in 0 .. img.h - 1 : \E x \in 0 .. img.w - 1 :
           RGBA16(img, At(img, x, y)).a < 65535

\* color.NRGBAModel.Convert of a premultiplied 8-bit pixel, as png.Encode
\* applies it to the pixels of an *image.RGBA that is not opaque:
\* uint8((c * 0x101 * 0xffff / (a * 0x101)) >> 8); the factor 0x101 cancels
\* in the integer division.
UnPremultiply(c) ==
    IF c.A = 0 THEN ZeroColour
    ELSE IF c.A = 255 THEN c
    ELSE Colour(Hi8((c.R * 65535) \div c.A),
                Hi8((c.G * 65535) \div c.A),
                Hi8((c.B * 65535) \div c.A),
                c.A)

Opaque(img) == \A k \in 1 .. Len(img.pix) : img.pix[k].A = 255

\* png.Encode of an *image.RGBA followed by png.Decode of the file: an
\* opaque image is stored as 8-bit truecolour and decodes to *image.RGBA;
\* any other is stored as truecolour with alpha, not premultiplied, and
\* decodes to *image.NRGBA.
PngEncode(img) ==
    IF Opaque(img)
    THEN Image("RGBA", img.w, img.h, img.pix)
    ELSE Image("NRGBA", img.w, img.h,
               [k \in 1 .. Len(img.pix) |-> UnPremultiply(img.pix[k])])

\* ------------------------------------------------------------------------
\* Byte streams (io.Reader over a file or buffer, encoding/binary)
\* ------------------------------------------------------------------------

\* The four little-endian bytes of an int32 (binary.Write).
Int32LE(v) ==
    LET u == IF v < 0 THEN v + 2147483647 + 1 ELSE v
        top == ((u \div 16777216) % 128) + (IF v < 0 THEN 128 ELSE 0)
    IN  << u % 256, (u \div 256) % 256, (u \div 65536) % 256, top >>

\* The int32 of four little-endian bytes (binary.Read).
Int32Of(b) ==
    (IF b[4] >= 128 THEN (b[4] - 256) * 16777216 ELSE b[4] * 16777216)
        + b[3] * 65536 + b[2] * 256 + b[1]

\* The error of io.ReadFull (and of binary.Read, which uses it) asked for
\* n bytes when avail are left: io.EOF only when nothing could be read.
ReadFullErr(avail, n) ==
    IF avail >= n THEN "nil"
    ELSE IF avail = 0 THEN "EOF"
    ELSE "unexpected EOF"

\* ------------------------------------------------------------------------
\* One conversion call in progress
\* ------------------------------------------------------------------------

\* op: the conversion function; pc: where it is; in, pos: the input bytes
\* and the read offset (DataToPng); src: the input file as png.Decode
\* returns it (PngToData); img: the canvas; i: the pixel cursor; out: the
\* bytes written (PngToData); png: the file written (DataToPng); warned:
\* whether the end-of-file warning of graphics_converter.go:71 was logged;
\* err: the value returned.
Conv(op, in, src) ==
    [op |-> op, pc |-> "header", in |-> in, pos |-> 0, src |-> src,
     img |-> NoImage, hasAlpha |-> FALSE, width |-> 0, height |-> 0,
     i |-> 0, out |-> <<>>, png |-> NoImage, warned |-> FALSE,
     err |-> "nil"]

IdleConv == [Conv("none", <<>>, NoImage) EXCEPT !.pc = "idle"]

Avail(c) == Len(c.in) - c.pos

\* return err
Return(c, e) == [c EXCEPT !.pc = "done", !.err = e]

\* ------------------------------------------------------------------------
\* GraphicsConverter.DataToPng
\* ------------------------------------------------------------------------

\* A mutant of the dimension check: the upper limits compared with >=.
DimsInvalidOffByOne(width, height) ==
    width <= 0 \/ height <= 0 \/ width >= MaxDim \/ height >= MaxDim

\* graphics_converter.go:47
DimsInvalid(width, height) ==
    width <= 0 \/ height <= 0 \/ width > MaxDim \/ height > MaxDim

\* A mutant of the canvas default: opaque black whatever the mode.
DefaultColourOpaque(hasAlpha) == Colour(0, 0, 0, 255)

\* graphics_converter.go:55-59: the colour every pixel starts with.
DefaultColour(hasAlpha) ==
    IF hasAlpha THEN Colour(0, 0, 0, 0) ELSE Colour(0, 0, 0, 255)

\* graphics_converter.go:29-61: the three header reads, the dimension check
\* and the canvas.
DataToPngHeader(c) ==
    LET e1 == ReadFullErr(Avail(c), 4)
        e2 == ReadFullErr(Avail(c) - 4, 4)
        e3 == ReadFullErr(Avail(c) - 8, 4)
        width == Int32Of(SubSeq(c.in, c.pos + 1, c.pos + 4))
        height == Int32Of(SubSeq(c.in, c.pos + 5, c.pos + 8))
        alphaFlag == Int32Of(SubSeq(c.in, c.pos + 9, c.pos + 12))
        hasAlpha == alphaFlag # 0
    IN  IF e1 # "nil" THEN Return(c, e1)
        ELSE IF e2 # "nil" THEN Return(c, e2)
        ELSE IF e3 # "nil" THEN Return(c, e3)
        ELSE IF DimsInvalid(width, height)
             THEN Return([c EXCEPT !.pos = c.pos + 12, !.width = width,
                                   !.height = height, !.hasAlpha = hasAlpha],
                         "invalid image dimensions")
        ELSE [c EXCEPT !.pos = c.pos + 12, !.width = width,
                       !.height = height, !.hasAlpha = hasAlpha,
                       !.img = Image("RGBA", width, height,
                                     [k \in 1 .. width * height |->
                                          DefaultColour(hasAlpha)]),
                       !.i = 0, !.pc = "loop"]

\* graphics_converter.go:143-147: the loop over j = 0 .. count-1 that sets
\* pixel x = (i+j) % width, y = (i+j) / width to col with SetRGBA: every
\* offset some j reaches inside the bounds holds col afterwards, the others
\* keep their colour.
PaintRun(img, width, i, count, col) ==
    LET reached == { PixOffset(img, (i + j) % width, (i + j) \div width) :
                       j \in { n \in 0 .. count - 1 :
                                 InBounds(img, (i + n) % width, (i + n) \div width) } }
    IN  [img EXCEPT !.pix = [k \in 1 .. Len(img.pix) |->
                                IF k \in reached THEN col ELSE img.pix[k]]]

\* break: leave the loop for png.Encode.
Break(c) == [c EXCEPT !.pc = "encode"]

\* A mutant of the run's application: the run length is not clamped.
ApplyRunUnclamped(c, pos, count, col) ==
    LET i2 == c.i + count
    IN  [c EXCEPT !.pos = pos,
                  !.img = PaintRun(c.img, c.width, c.i, count, col),
                  !.i = i2,
                  !.pc = IF i2 < c.width * c.height THEN "loop" ELSE "encode"]

\* graphics_converter.go:135-149: clamp, paint, advance; then the loop
\* condition of line 64.
ApplyRun(c, pos, count, col) ==
    LET pixelsLeft == c.width * c.height - c.i
        n == IF count > pixelsLeft THEN pixelsLeft ELSE count
        i2 == c.i + n
    IN  [c EXCEPT !.pos = pos,
                  !.img = PaintRun(c.img, c.width, c.i, n, col),
                  !.i = i2,
                  !.pc = IF i2 < c.width * c.height THEN "loop" ELSE "encode"]

\* graphics_converter.go:64-150: one iteration of the body loop.
DataToPngLoop(c) ==
    IF Avail(c) = 0 THEN Break([c EXCEPT !.warned = TRUE])   \* count: io.EOF
    ELSE
    LET cb == c.in[c.pos + 1]
        count == IF cb = 0 THEN MaxRun ELSE cb
    IN  IF c.hasAlpha
        THEN IF Avail(c) - 1 = 0 THEN Break([c EXCEPT !.pos = c.pos + 1])
             ELSE
             LET a == c.in[c.pos + 2]
                 e == ReadFullErr(Avail(c) - 2, 3)
             IN  IF a # 0
                 THEN IF e = "EOF" THEN Break([c EXCEPT !.pos = c.pos + 2])
                      ELSE IF e # "nil"
                           THEN Return([c EXCEPT !.pos = Len(c.in)], e)
                      ELSE ApplyRun(c, c.pos + 5, count,
                                    Colour(c.in[c.pos + 5], c.in[c.pos + 4],
                                           c.in[c.pos + 3], a))
                 ELSE ApplyRun(c, c.pos + 2, count, Colour(0, 0, 0, a))
        ELSE LET e == ReadFullErr(Avail(c) - 1, 3)
             IN  IF e = "EOF" THEN Break([c EXCEPT !.pos = c.pos + 1])
                 ELSE IF e # "nil"
                      THEN Return([c EXCEPT !.pos = Len(c.in)], e)
                 ELSE ApplyRun(c, c.pos + 4, count,
                               Colour(c.in[c.pos + 4], c.in[c.pos + 3],
                                      c.in[c.pos + 2], 255))

\* graphics_converter.go:153: return png.Encode(output, img).
DataToPngEncode(c) == [c EXCEPT !.pc = "done", !.png = PngEncode(c.img)]

\* ------------------------------------------------------------------------
\* GraphicsConverter.PngToData
\* ------------------------------------------------------------------------

\* graphics_converter.go:159-189: png.Decode, the alpha decision and the
\* header.
PngToDataHeader(c) ==
    IF c.src.typ \notin {"RGBA", "NRGBA", "Paletted", "NRGBA64"}
    THEN Return(c, "png: invalid format")
    ELSE LET width == c.src.w
             height == c.src.h
             hasAlpha == hasAlphaChannel(c.src)
         IN  [c EXCEPT !.img = c.src, !.width = width, !.height = height,
                       !.hasAlpha = hasAlpha,
                       !.out = Int32LE(width) \o Int32LE(height)
                                   \o Int32LE(IF hasAlpha THEN 1 ELSE 0),
                       !.i = 0,
                       !.pc = IF 0 < width * height THEN "loop" ELSE "done"]

\* graphics_converter.go:203-214: the look-ahead loop breaks at count when
\* pixel i+count is past the end or differs from col in some channel.
LookAheadBreaks(img, i, col, count) ==
    \/ i + count >= img.w * img.h
    \/ getRGBA(img, (i + count) % img.w, (i + count) \div img.w) # col

\* A mutant of the run length: the cap of 256 is missing.
RunLengthUncapped(img, i, col) ==
    LET stops == { n \in 1 .. img.w * img.h : LookAheadBreaks(img, i, col, n) }
    IN  CHOOSE n \in stops : \A m \in stops : n <= m

\* A mutant of the run length: a run ends with its row.
RunLengthInRow(img, i, col) ==
    LET stops == { n \in 1 .. MaxRun - 1 :
                       \/ LookAheadBreaks(img, i, col, n)
                       \/ (i + n) % img.w = 0 }
    IN  IF stops = {} THEN MaxRun
        ELSE CHOOSE n \in stops : \A m \in stops : n <= m

\* graphics_converter.go:200-222: count starts at 1 and grows until the
\* look-ahead breaks or count reaches 256: the least count from 1 to 255
\* at which it breaks, and 256 when there is none.
RunLength(img, i, col) ==
    LET stops == { n \in 1 .. MaxRun - 1 : LookAheadBreaks(img, i, col, n) }
    IN  IF stops = {} THEN MaxRun
        ELSE CHOOSE n \in stops : \A m \in stops : n <= m

\* A mutant of the bytes of a run: the colour in the order R, G, B.
RunBytesRGB(hasAlpha, count, col) ==
    LET countByte == IF count = MaxRun THEN 0 ELSE count % 256
    IN  IF hasAlpha
        THEN IF col.A # 0
             THEN << countByte, col.A, col.R, col.G, col.B >>
             ELSE << countByte, col.A >>
        ELSE << countByte, col.R, col.G, col.B >>

\* A mutant of the bytes of a run: the colour written after an alpha of 0.
RunBytesAlwaysColour(hasAlpha, count, col) ==
    LET countByte == IF count = MaxRun THEN 0 ELSE count % 256
    IN  IF hasAlpha
        THEN << countByte, col.A, col.B, col.G, col.R >>
        ELSE << countByte, col.B, col.G, col.R >>

\* A mutant of the bytes of a run: an alpha byte in every mode.
RunBytesAlwaysAlpha(hasAlpha, count, col) ==
    LET countByte == IF count = MaxRun THEN 0 ELSE count % 256
    IN  IF col.A # 0
        THEN << countByte, col.A, col.B, col.G, col.R >>
        ELSE << countByte, col.A >>

\* graphics_converter.go:224-263: the bytes of one run.
RunBytes(hasAlpha, count, col) ==
    LET countByte == IF count = MaxRun THEN 0 ELSE count % 256
    IN  IF hasAlpha
        THEN IF col.A # 0
             THEN << countByte, col.A, col.B, col.G, col.R >>
             ELSE << countByte, col.A >>
        ELSE << countByte, col.B, col.G, col.R >>

\* graphics_converter.go:193-266: one iteration of the run loop, then the
\* loop condition.
PngToDataLoop(c) ==
    LET col == getRGBA(c.img, c.i % c.width, c.i \div c.width)
        count == RunLength(c.img, c.i, col)
        i2 == c.i + count
    IN  [c EXCEPT !.out = c.out \o RunBytes(c.hasAlpha, count, col),
                  !.i = i2,
                  !.pc = IF i2 < c.width * c.height THEN "loop" ELSE "done"]

\* ------------------------------------------------------------------------
\* A conversion call as a whole
\* ------------------------------------------------------------------------

\* The next step of a call that has not returned.
ConvStep(c) ==
    IF c.op = "DataToPng"
    THEN IF c.pc = "header" THEN DataToPngHeader(c)
         ELSE IF c.pc = "loop" THEN DataToPngLoop(c)
         ELSE DataToPngEncode(c)
    ELSE IF c.pc = "header" THEN PngToDataHeader(c)
         ELSE PngToDataLoop(c)

\* The call run to its return.  Each step is taken once and its result
\* bound as a value before the next is taken.
RECURSIVE ConvRun(_)
ConvRun(c) ==
    IF c.pc = "done" THEN c
    ELSE CHOOSE r \in { ConvRun(d) : d \in { ConvStep(c) } } : TRUE

\* converter.DataToPng(bytes.NewReader(data), output), run to its return.
DataToPng(data) == ConvRun(Conv("DataToPng", data, NoImage))

\* converter.PngToData(bytes.NewReader(png), output), run to its return.
PngToData(png) == ConvRun(Conv("PngToData", <<>>, png))

\* graphics_converter_test.go:274-278
colorsWithinTolerance(c1, c2, tolerance) == Abs(c1 - c2) <= tolerance

\* graphics_converter_test.go:245-272: assertImageEquals passes.
assertImageEquals(expected, actual, tolerance) ==
    /\ expected.w = actual.w
    /\ expected.h = actual.h
    /\ \A y \in 0 .. expected.h - 1 : \A x \in 0 .. expected.w - 1 :
          LET e == RGBA16(expected, At(expected, x, y))
              a == RGBA16(actual, At(actual, x, y))
          IN  /\ colorsWithinTolerance(e.r \div 256, a.r \div 256, tolerance)
              /\ colorsWithinTolerance(e.g \div 256, a.g \div 256, tolerance)
              /\ colorsWithinTolerance(e.b \div 256, a.b \div 256, tolerance)
              /\ colorsWithinTolerance(e.a \div 256, a.a \div 256, tolerance)

\* ------------------------------------------------------------------------
\* The inputs the codec is run on
\* ------------------------------------------------------------------------

\* Canvas sizes.
Dims == { d \in (1 .. MaxPixels) \X (1 .. MaxPixels) : d[1] * d[2] <= MaxPixels }

\* Count bytes: 0 stands for 256.
CountVals == {0, 1, 2}

\* Alpha bytes other than 0.
AlphaVals == {100, 255}

\* Colour bytes on the wire, in the order B, G, R.
WireColours == { <<10, 200, 90>>, <<60, 0, 30>> }

\* Colour bytes after a non-zero alpha byte.  With alpha 100 the colour has
\* a channel above the alpha, which no premultiplied pixel has.
AlphaWireColours == { <<10, 200, 90>> }

\* The runs of a body without alpha and of a body with alpha.
PlainRuns == { <<n>> \o col : n \in CountVals, col \in WireColours }

AlphaRuns ==
    { <<n, 0>> : n \in CountVals }
        \cup { <<n, a>> \o col : n \in CountVals, a \in AlphaVals,
                                 col \in AlphaWireColours }

\* The concatenations of runs that are at most len bytes long.
RECURSIVE FullSeqs(_, _)
FullSeqs(runs, len) ==
    {<<>>} \cup UNION { { r \o s : s \in FullSeqs(runs, len - Len(r)) } :
                        r \in { q \in runs : Len(q) <= len } }

\* Every body of at most MaxBodyLen bytes: whole runs, then possibly the
\* first bytes of one more.
Bodies(runs) ==
    UNION { { SubSeq(s \o r, 1, k) : k \in 0 .. Min(MaxBodyLen, Len(s \o r)) } :
            s \in FullSeqs(runs, MaxBodyLen), r \in runs }

DataHeader(width, height, alphaFlag) ==
    Int32LE(width) \o Int32LE(height) \o Int32LE(alphaFlag)

\* Streams whose header alone decides: dimensions at and beyond the
\* limits, alpha flags other than 0 and 1, and headers cut short.
EdgeDims ==
    { <<0, 1>>, <<-1, 1>>, <<MaxDim + 1, 1>>, <<100000, 1>>, <<MaxDim, 1>>,
      <<1, 0>>, <<1, -1>>, <<1, MaxDim + 1>>, <<1, 100000>>, <<1, MaxDim>>,
      <<-2147483647 - 1, 1>>, <<2147483647, 2147483647>> }

EdgeData ==
    { DataHeader(d[1], d[2], f) \o b :
          d \in EdgeDims, f \in {0, 1}, b \in { <<>>, <<0, 0>>, <<0, 10, 200, 90>> } }
        \cup { DataHeader(2, 1, f) \o b :
                   f \in {256, -1}, b \in { <<1, 0, 1, 0>>, <<2, 255, 10, 200, 90>> } }
        \cup { SubSeq(DataHeader(1, 1, 0), 1, k) : k \in 0 .. 11 }

DataInputs ==
    { DataHeader(d[1], d[2], 0) \o b : d \in Dims, b \in Bodies(PlainRuns) }
        \cup { DataHeader(d[1], d[2], 1) \o b : d \in Dims, b \in Bodies(AlphaRuns) }

\* Pixels of the PNG files drawn as inputs, as png.Decode returns them
\* (not premultiplied).
OpaquePixels == { Colour(90, 200, 10, 255), Colour(0, 0, 0, 255) }

AlphaPixels ==
    OpaquePixels \cup { Colour(90, 200, 10, 100), Colour(90, 200, 10, 0) }

\* png.Decode returns *image.RGBA for 8-bit truecolour without alpha (every
\* pixel opaque), *image.NRGBA for 8-bit truecolour with alpha,
\* *image.Paletted for a palette image, with or without transparency, and
\* *image.NRGBA64 for 16-bit truecolour with alpha.
PngInputs ==
    UNION { { Image("RGBA", d[1], d[2], pix) :
                  pix \in [1 .. d[1] * d[2] -> OpaquePixels] }
            \cup { Image(t, d[1], d[2], pix) :
                       t \in {"NRGBA", "Paletted", "NRGBA64"},
                       pix \in [1 .. d[1] * d[2] -> AlphaPixels] } :
            d \in Dims }

\* Images of one colour and one row, at and past the longest run and past
\* the largest width DataToPng accepts.
EdgePng ==
    { Image("RGBA", w, 1, [k \in 1 .. w |-> Colour(90, 200, 10, 255)]) :
          w \in { MaxRun, MaxRun + 1, MaxDim + 1 } }

\* ------------------------------------------------------------------------
\* Paths and strings (path/filepath, strings), as sequences of characters
\* ------------------------------------------------------------------------

Sep == "/"

\* strings.ToLower on the letters the file names of the model use.
LowerChar(ch) ==
    CASE ch = "A" -> "a"
      [] ch = "D" -> "d"
      [] ch = "T" -> "t"
      [] ch = "P" -> "p"
      [] ch = "N" -> "n"
      [] ch = "G" -> "g"
      [] OTHER -> ch

ToLower(str) == [k \in 1 .. Len(str) |-> LowerChar(str[k])]

HasSuffix(str, suffix) ==
    /\ Len(str) >= Len(suffix)
    /\ SubSeq(str, Len(str) - Len(suffix) + 1, Len(str)) = suffix

TrimSuffix(str, suffix) ==
    IF HasSuffix(str, suffix)
    THEN SubSeq(str, 1, Len(str) - Len(suffix))
    ELSE str

\* The index of the last separator of a path, 0 when it has none.
LastSep(path) ==
    LET at == { k \in 1 .. Len(path) : path[k] = Sep }
    IN  IF at = {} THEN 0 ELSE CHOOSE k \in at : \A m \in at : m <= k

\* filepath.Base and filepath.Dir of a clean relative or absolute path.
Base(path) == SubSeq(path, LastSep(path) + 1, Len(path))

Dir(path) ==
    IF LastSep(path) = 0 THEN << "." >> ELSE SubSeq(path, 1, LastSep(path) - 1)

\* filepath.Join of two clean paths: joining "." changes nothing.
Join(a, b) == IF b = << "." >> THEN a ELSE a \o << Sep >> \o b

\* filepath.Rel(base, path) of a path that filepath.Walk(base, ...) visits.
Rel(base, path) ==
    IF path = base THEN << "." >>
    ELSE SubSeq(path, Len(base) + 2, Len(path))

\* ------------------------------------------------------------------------
\* Files and the conversion function of a batch
\* ------------------------------------------------------------------------

\* A file's content: its bytes as DataToPng reads them, and the image
\* png.Decode returns for it (CorruptPng when it is no PNG file).
FileOf(bytes, png) == [bytes |-> bytes, png |-> png]

\* A file just created or truncated.
EmptyFile == FileOf(<<>>, CorruptPng)

\* The first twelve bytes of every PNG file: the signature and the length
\* of the IHDR chunk.
PngMagic == << 137, 80, 78, 71, 13, 10, 26, 10, 0, 0, 0, 13 >>

\* A file two open handles wrote over each other.
GarbledFile == FileOf(<< 0 >>, CorruptPng)

\* convertFunc(inputFile, outputFile): the error returned and the content
\* written.  Both functions fail before their first write or not at all.
convertFunc(call, content) ==
    IF call = "DataToPng"
    THEN LET r == DataToPng(content.bytes)
         IN  [err |-> r.err,
              out |-> IF r.err = "nil" THEN FileOf(PngMagic, r.png) ELSE EmptyFile]
    ELSE LET r == PngToData(content.png)
         IN  [err |-> r.err,
              out |-> IF r.err = "nil" THEN FileOf(r.out, CorruptPng) ELSE EmptyFile]

\* unnamed/part_000:47 and :53: the extensions of the two batch calls.
FromExt(call) ==
    IF call = "DataToPng" THEN << ".", "d", "a", "t", "a" >>
    ELSE << ".", "p", "n", "g" >>

ToExt(call) ==
    IF call = "DataToPng" THEN << ".", "p", "n", "g" >>
    ELSE << ".", "d", "a", "t", "a" >>

\* ------------------------------------------------------------------------
\* The inputs of a batch call
\* ------------------------------------------------------------------------

\* At most MaxFiles files with the source extension lie under the source
\* directory.
MaxFiles == 3

\* SetMaxWorkers and the number of CPUs stay within MaxWorkers.
MaxWorkers == 2

\* At most MaxFaults file operations fail during one batch call.
MaxFaults == 1

FromDir == << "i", "n" >>

ToDir == << "o", "u", "t" >>

\* A valid DATA file of one pixel whose blue byte is n.
DataFile(n) == FileOf(DataHeader(1, 1, 0) \o << 1, n, 200, 90 >>, CorruptPng)

\* A valid PNG file of one pixel whose blue channel is n.
PngFileOf(n) ==
    FileOf(PngMagic, Image("NRGBA", 1, 1, << Colour(90, 200, n, 100) >>))

Entry(rel, isDir, content) == [rel |-> rel, isDir |-> isDir, content |-> content]

\* The entries a source tree may hold, in the lexical order filepath.Walk
\* visits them: files with the extension in upper and in lower case, a
\* file with another extension, a directory whose name ends with the
\* extension, a file in a subdirectory, and a file DataToPng rejects.
DataEntries ==
    << Entry(<< "A", ".", "D", "A", "T", "A" >>, FALSE, DataFile(1)),
       Entry(<< "A", ".", "D", "A", "T", "A", ".", "d", "a", "t", "a" >>,
             FALSE, DataFile(2)),
       Entry(<< "c", ".", "t", "x", "t" >>, FALSE, DataFile(4)),
       Entry(<< "d", ".", "d", "a", "t", "a" >>, TRUE, EmptyFile),
       Entry(<< "s", "/", "b", ".", "d", "a", "t", "a" >>, FALSE, DataFile(5)),
       Entry(<< "z", ".", "d", "a", "t", "a" >>, FALSE, EmptyFile) >>

PngEntries ==
    << Entry(<< "P", ".", "P", "N", "G" >>, FALSE, PngFileOf(1)),
       Entry(<< "c", ".", "t", "x", "t" >>, FALSE, DataFile(4)),
       Entry(<< "d", ".", "p", "n", "g" >>, TRUE, EmptyFile),
       Entry(<< "p", ".", "p", "n", "g" >>, FALSE, PngFileOf(2)),
       Entry(<< "z", ".", "p", "n", "g" >>, FALSE, DataFile(3)) >>

Entries(call) == IF call = "DataToPng" THEN DataEntries ELSE PngEntries

\* The source trees: the entries at a set of positions of Entries(call),
\* the file with another extension and the directory among them.
Trees(call) ==
    LET other == { k \in 1 .. Len(Entries(call)) :
                       \/ Entries(call)[k].isDir
                       \/ Entries(call)[k].rel = << "c", ".", "t", "x", "t" >> }
    IN  { other \cup t :
              t \in { u \in SUBSET ((1 .. Len(Entries(call))) \ other) :
                          Cardinality(u) <= MaxFiles } }

\* The elements of a set of numbers in ascending order.
RECURSIVE Ascending(_)
Ascending(set) ==
    IF set = {} THEN <<>>
    ELSE LET least == CHOOSE k \in set : \A m \in set : k <= m
         IN  << least >> \o Ascending(set \ {least})

\* ------------------------------------------------------------------------
\* State
\* ------------------------------------------------------------------------

VARIABLES
    \* the codec run alone
    source,      \* the input of a chain of conversions: [kind, data, png];
                 \* kind is "data" or "png" for the round trips, "header"
                 \* for a single call of DataToPng
    plan,        \* the conversions still to run after the current one
    conv,        \* the conversion call in progress
    done,        \* the calls that have returned, in order
    \* one batch call of FilesConverter
    numCPU,      \* the local numCPU of NewFilesConverter, 0 outside the call
    workers,     \* the parameter of SetMaxWorkers, 0 outside the call
    call,        \* "DataToPng" or "PngToData": the method called
    old,         \* the files of the destination tree before the call
    tree,        \* the positions in Entries(call) of the source tree's entries
    walkFails,   \* whether filepath.Walk reports an error
    maxWorkers,  \* f.maxWorkers
    mpc,         \* where the calling goroutine is
    files,       \* the relative paths filepath.Walk collected
    tasks,       \* the ConversionTasks built, in the order they were sent
    taskQueue,   \* the tasks buffered in the channel taskQueue
    queueClosed, \* whether taskQueue is closed
    errChan,     \* the errors buffered in the channel errChan
    wg,          \* the counter of the WaitGroup
    wpc,         \* where each worker goroutine is
    wtask,       \* the index of the task each worker holds, 0 for none
    dirs,        \* the directories that exist under and at the destination
    outfs,       \* the files of the destination tree: path -> content
    handles,     \* the open file handles: <<task index, "in" or "out">>
    faults,      \* how many file operations have failed
    received,    \* for each task index, how many times a worker received it
    result       \* what convert returned, "pending" before it returns

codecVars == << source, plan, conv, done >>

batchVars ==
    << numCPU, workers, call, old, tree, walkFails, maxWorkers, mpc, files, tasks, taskQueue,
       queueClosed, errChan, wg, wpc, wtask, dirs, outfs, handles, faults,
       received, result >>

vars == << codecVars, batchVars >>

Workers == 1 .. MaxWorkers

NoError == [kind |-> "nil", task |-> 0]

\* No batch call is made.
BatchIdle ==
    /\ numCPU = 0 /\ workers = 0
    /\ call = "none" /\ old = <<>> /\ tree = {} /\ walkFails = FALSE
    /\ maxWorkers = 1
    /\ mpc = "idle" /\ files = <<>> /\ tasks = <<>> /\ taskQueue = <<>>
    /\ queueClosed = FALSE /\ errChan = <<>> /\ wg = 0
    /\ wpc = [w \in Workers |-> "notStarted"] /\ wtask = [w \in Workers |-> 0]
    /\ dirs = {} /\ outfs = <<>> /\ handles = {} /\ faults = 0
    /\ received = <<>> /\ result = "pending"

\* No conversion is run outside a batch.
CodecIdle ==
    /\ source = [kind |-> "none", data |-> <<>>, png |-> NoImage]
    /\ plan = <<>> /\ conv = IdleConv /\ done = <<>>

\* The chain of TestDataToPngRoundTrip: DATA -> PNG -> DATA -> PNG.
InitFromData ==
    \E d \in DataInputs :
        /\ source = [kind |-> "data", data |-> d, png |-> NoImage]
        /\ conv = Conv("DataToPng", d, NoImage)
        /\ plan = << "PngToData", "DataToPng" >>
        /\ done = <<>>

\* The chain of TestPngToDataRoundTrip: PNG -> DATA -> PNG.
InitFromPng ==
    \E p \in PngInputs \cup EdgePng :
        /\ source = [kind |-> "png", data |-> <<>>, png |-> p]
        /\ conv = Conv("PngToData", <<>>, p)
        /\ plan = << "DataToPng" >>
        /\ done = <<>>

\* One call of DataToPng on a stream whose header decides.
InitFromEdgeData ==
    \E d \in EdgeData :
        /\ source = [kind |-> "header", data |-> d, png |-> NoImage]
        /\ conv = Conv("DataToPng", d, NoImage)
        /\ plan = <<>>
        /\ done = <<>>

CodecInit == (InitFromData \/ InitFromPng \/ InitFromEdgeData) /\ BatchIdle

DataToPngHeaderStep ==
    /\ conv.op = "DataToPng" /\ conv.pc = "header"
    /\ conv' = DataToPngHeader(conv)
    /\ UNCHANGED << source, plan, done, batchVars >>

DataToPngLoopStep ==
    /\ conv.op = "DataToPng" /\ conv.pc = "loop"
    /\ conv' = DataToPngLoop(conv)
    /\ UNCHANGED << source, plan, done, batchVars >>

DataToPngEncodeStep ==
    /\ conv.op = "DataToPng" /\ conv.pc = "encode"
    /\ conv' = DataToPngEncode(conv)
    /\ UNCHANGED << source, plan, done, batchVars >>

PngToDataHeaderStep ==
    /\ conv.op = "PngToData" /\ conv.pc = "header"
    /\ conv' = PngToDataHeader(conv)
    /\ UNCHANGED << source, plan, done, batchVars >>

PngToDataLoopStep ==
    /\ conv.op = "PngToData" /\ conv.pc = "loop"
    /\ conv' = PngToDataLoop(conv)
    /\ UNCHANGED << source, plan, done, batchVars >>

\* The test passes the bytes a call wrote to the next call
\* (graphics_converter_test.go:44-51, 79-82).
ChainNext ==
    /\ conv.pc = "done" /\ conv.err = "nil" /\ plan # <<>>
    /\ done' = Append(done, conv)
    /\ conv' = IF Head(plan) = "DataToPng"
               THEN Conv("DataToPng", conv.out, NoImage)
               ELSE Conv("PngToData", <<>>, conv.png)
    /\ plan' = Tail(plan)
    /\ UNCHANGED << source, batchVars >>

\* The chain ends with its last call, or with the first call that fails
\* (t.Fatalf, graphics_converter_test.go:215, 228).
ChainEnd ==
    /\ conv.pc = "done" /\ (conv.err # "nil" \/ plan = <<>>)
    /\ done' = Append(done, conv)
    /\ conv' = IdleConv
    /\ plan' = <<>>
    /\ UNCHANGED << source, batchVars >>

CodecNext ==
    \/ DataToPngHeaderStep
    \/ DataToPngLoopStep
    \/ DataToPngEncodeStep
    \/ PngToDataHeaderStep
    \/ PngToDataLoopStep
    \/ ChainNext
    \/ ChainEnd

CodecSpec == CodecInit /\ [][CodecNext]_vars

\* ------------------------------------------------------------------------
\* FilesConverter: construction and the calling goroutine of convert
\* ------------------------------------------------------------------------

\* unnamed/part_000:26: the cap on the default number of workers.
DefaultWorkerCap == 8

\* unnamed/part_000:24-28: the maxWorkers NewFilesConverter computes on a
\* machine with n CPUs.
NewFilesConverter(n) == IF n > DefaultWorkerCap THEN DefaultWorkerCap ELSE n

\* A mutant of the walk callback: the extension compared as it is written.
MatchesCaseSensitive(c, entry) ==
    /\ ~ entry.isDir
    /\ HasSuffix(Join(FromDir, entry.rel), FromExt(c))

\* A mutant of the walk callback: directories are not told apart.
MatchesDirectories(c, entry) ==
    HasSuffix(ToLower(Join(FromDir, entry.rel)), ToLower(FromExt(c)))

\* unnamed/part_000:79: the test of the walk callback.
Matches(c, entry) ==
    /\ ~ entry.isDir
    /\ HasSuffix(ToLower(Join(FromDir, entry.rel)), ToLower(FromExt(c)))

\* unnamed/part_000:75-87: the relative paths of the matching entries, in
\* the order filepath.Walk visits them.
RECURSIVE WalkFiles(_, _)
WalkFiles(c, positions) ==
    IF positions = <<>> THEN <<>>
    ELSE LET entry == Entries(c)[Head(positions)]
             more == WalkFiles(c, Tail(positions))
         IN  IF Matches(c, entry)
             THEN << Rel(FromDir, Join(FromDir, entry.rel)) >> \o more
             ELSE more

\* unnamed/part_000:112-113: the output path of a relative path.
OutputPath(c, relPath) ==
    Join(Join(ToDir, Dir(relPath)),
         TrimSuffix(Base(relPath), FromExt(c)) \o ToExt(c))

\* unnamed/part_000:110-121: the task of files[k].
BuildTask(c, fs, k) ==
    [index |-> k, totalFiles |-> Len(fs), relPath |-> fs[k],
     inputPath |-> Join(FromDir, fs[k]),
     outputPath |-> OutputPath(c, fs[k])]

\* The content of the source file at a relative path.
SourceContent(c, relPath) ==
    LET k == CHOOSE n \in 1 .. Len(Entries(c)) : Entries(c)[n].rel = relPath
    IN  Entries(c)[k].content

\* os.MkdirAll: the directory and every parent of it exist afterwards.
WithDirs(existing, path) ==
    existing \cup { path }
        \cup { SubSeq(path, 1, k - 1) : k \in { n \in 2 .. Len(path) : path[n] = Sep } }

FaultAllowed == faults < MaxFaults

TaskError(step, k) == [kind |-> step, task |-> k]

\* What runtime.NumCPU() may return: the worker counts the batch is run
\* with, and counts at and above the cap.
CPUs ==
    (1 .. MaxWorkers)
        \cup { DefaultWorkerCap, DefaultWorkerCap + 1, 2 * DefaultWorkerCap }

\* What SetMaxWorkers may be called with.
WorkerArgs == -1 .. MaxWorkers

\* A file an earlier run left in the destination.
OldFile == FileOf(<< 7 >>, CorruptPng)

\* The destination before the call on the tree t: empty and without its
\* root directory, or, when the files of t with the extension are among
\* the first and the last entry of Entries(c), holding old files at the
\* output paths of these two.
Destinations(c, t) ==
    LET ends == { 1, Len(Entries(c)) }
        others == { k \in t : \/ Entries(c)[k].isDir
                              \/ Entries(c)[k].rel = << "c", ".", "t", "x", "t" >> }
    IN  IF t \subseteq ends \cup others
        THEN { <<>>,
               [q \in { OutputPath(c, Entries(c)[k].rel) : k \in ends } |-> OldFile] }
        ELSE { <<>> }

\* The program before NewFilesConverter returns: the source tree and the
\* destination are there and numCPU holds runtime.NumCPU()
\* (unnamed/part_000:24).
BatchInit ==
    /\ CodecIdle
    /\ \E c \in {"DataToPng", "PngToData"} :
         /\ call = c
         /\ tree \in Trees(c)
         /\ old \in Destinations(c, tree)
    /\ walkFails \in BOOLEAN
    /\ numCPU \in CPUs /\ workers = 0
    /\ maxWorkers = 0
    /\ mpc = "construct"
    /\ files = <<>> /\ tasks = <<>> /\ taskQueue = <<>>
    /\ queueClosed = FALSE /\ errChan = <<>> /\ wg = 0
    /\ wpc = [w \in Workers |-> "notStarted"] /\ wtask = [w \in Workers |-> 0]
    /\ dirs = (IF old = <<>> THEN {} ELSE { ToDir })
    /\ outfs = old /\ handles = {} /\ faults = 0
    /\ received = <<>> /\ result = "pending"

\* unnamed/part_000:25-35: NewFilesConverter sets maxWorkers and returns.
New ==
    /\ mpc = "construct"
    /\ maxWorkers' = NewFilesConverter(numCPU)
    /\ numCPU' = 0
    /\ mpc' = "new"
    /\ UNCHANGED << codecVars, workers, call, old, tree, walkFails, files, tasks,
                    taskQueue, queueClosed, errChan, wg, wpc, wtask, dirs,
                    outfs, handles, faults, received, result >>

\* unnamed/part_000:38: SetMaxWorkers is called with n.
SetMaxWorkersCall(n) ==
    /\ mpc = "new"
    /\ workers' = n
    /\ mpc' = "set"
    /\ UNCHANGED << codecVars, numCPU, call, old, tree, walkFails, maxWorkers,
                    files, tasks, taskQueue, queueClosed, errChan, wg, wpc,
                    wtask, dirs, outfs, handles, faults, received, result >>

\* A mutant of SetMaxWorkers: any value is taken.
SetMaxWorkersUnchecked ==
    /\ mpc = "set"
    /\ maxWorkers' = workers
    /\ workers' = 0
    /\ mpc' = "ready"
    /\ UNCHANGED << codecVars, numCPU, call, old, tree, walkFails, files, tasks,
                    taskQueue, queueClosed, errChan, wg, wpc, wtask, dirs,
                    outfs, handles, faults, received, result >>

\* unnamed/part_000:39-42: the body of SetMaxWorkers and its return.
SetMaxWorkers ==
    /\ mpc = "set"
    /\ maxWorkers' = IF workers > 0 THEN workers ELSE maxWorkers
    /\ workers' = 0
    /\ mpc' = "ready"
    /\ UNCHANGED << codecVars, numCPU, call, old, tree, walkFails, files, tasks,
                    taskQueue, queueClosed, errChan, wg, wpc, wtask, dirs,
                    outfs, handles, faults, received, result >>

\* unnamed/part_000:74-91: the walk, and the return when it fails.  convert
\* is run with at most MaxWorkers workers.
Walk ==
    /\ mpc \in {"new", "ready"}
    /\ maxWorkers <= MaxWorkers
    /\ IF walkFails
       THEN /\ result' = TaskError("scan", 0)
            /\ mpc' = "returned"
            /\ UNCHANGED files
       ELSE /\ files' = WalkFiles(call, Ascending(tree))
            /\ mpc' = "scanned"
            /\ UNCHANGED result
    /\ UNCHANGED << codecVars, numCPU, workers, call, old, tree, walkFails, maxWorkers, tasks,
                    taskQueue, queueClosed, errChan, wg, wpc, wtask, dirs,
                    outfs, handles, faults, received >>

\* unnamed/part_000:95-97
ReturnNoFiles ==
    /\ mpc = "scanned" /\ Len(files) = 0
    /\ result' = NoError
    /\ mpc' = "returned"
    /\ UNCHANGED << codecVars, numCPU, workers, call, old, tree, walkFails, maxWorkers, files, tasks,
                    taskQueue, queueClosed, errChan, wg, wpc, wtask, dirs,
                    outfs, handles, faults, received >>

\* unnamed/part_000:99-108: the channels and the destination root.
MakeRoot ==
    /\ mpc = "scanned" /\ Len(files) > 0
    /\ \/ /\ dirs' = WithDirs(dirs, ToDir)
          /\ mpc' = "enqueue"
          /\ received' = [k \in 1 .. Len(files) |-> 0]
          /\ UNCHANGED << faults, result >>
       \/ /\ FaultAllowed
          /\ faults' = faults + 1
          /\ result' = TaskError("mkdirRoot", 0)
          /\ mpc' = "returned"
          /\ UNCHANGED << dirs, received >>
    /\ UNCHANGED << codecVars, numCPU, workers, call, old, tree, walkFails, maxWorkers, files, tasks,
                    taskQueue, queueClosed, errChan, wg, wpc, wtask, outfs,
                    handles >>

\* unnamed/part_000:110-122: one iteration of the loop that sends the
\* tasks; the channel holds len(files) tasks.
Enqueue ==
    /\ mpc = "enqueue" /\ Len(tasks) < Len(files)
    /\ Len(taskQueue) < Len(files)
    /\ LET task == BuildTask(call, files, Len(tasks) + 1)
       IN  /\ taskQueue' = Append(taskQueue, task)
           /\ tasks' = Append(tasks, task)
    /\ UNCHANGED << codecVars, numCPU, workers, call, old, tree, walkFails, maxWorkers, mpc, files,
                    queueClosed, errChan, wg, wpc, wtask, dirs, outfs, handles,
                    faults, received, result >>

\* unnamed/part_000:123
CloseQueue ==
    /\ mpc = "enqueue" /\ Len(tasks) = Len(files)
    /\ queueClosed' = TRUE
    /\ mpc' = "start"
    /\ UNCHANGED << codecVars, numCPU, workers, call, old, tree, walkFails, maxWorkers, files, tasks,
                    taskQueue, errChan, wg, wpc, wtask, dirs, outfs, handles,
                    faults, received, result >>

Started == { w \in Workers : wpc[w] # "notStarted" }

\* A mutant of the start of the workers: they may start while the tasks
\* are still being sent.
StartWorkerEarly ==
    /\ mpc \in {"enqueue", "start"}
    /\ LET w == Cardinality(Started) + 1
       IN  /\ w <= maxWorkers
           /\ mpc = "enqueue" => w < maxWorkers
           /\ wg' = wg + 1
           /\ wpc' = [wpc EXCEPT ![w] = "claim"]
           /\ mpc' = IF mpc = "enqueue" THEN "enqueue"
                     ELSE IF w < maxWorkers THEN "start" ELSE "wait"
    /\ UNCHANGED << codecVars, numCPU, workers, call, old, tree, walkFails, maxWorkers, files, tasks,
                    taskQueue, queueClosed, errChan, wtask, dirs, outfs,
                    handles, faults, received, result >>

\* unnamed/part_000:129-131: wg.Add(1) and the go statement of one
\* iteration, then the loop condition.
StartWorker ==
    /\ mpc = "start"
    /\ LET w == Cardinality(Started) + 1
       IN  /\ w <= maxWorkers
           /\ wg' = wg + 1
           /\ wpc' = [wpc EXCEPT ![w] = "claim"]
           /\ mpc' = IF w < maxWorkers THEN "start" ELSE "wait"
    /\ UNCHANGED << codecVars, numCPU, workers, call, old, tree, walkFails, maxWorkers, files, tasks,
                    taskQueue, queueClosed, errChan, wtask, dirs, outfs,
                    handles, faults, received, result >>

\* A mutant of the barrier: the calling goroutine does not wait.
WaitNoBarrier ==
    /\ mpc = "wait"
    /\ mpc' = "drain"
    /\ UNCHANGED << codecVars, numCPU, workers, call, old, tree, walkFails, maxWorkers, files, tasks,
                    taskQueue, queueClosed, errChan, wg, wpc, wtask, dirs,
                    outfs, handles, faults, received, result >>

\* unnamed/part_000:178: wg.Wait() returns when the counter is zero.
Wait ==
    /\ mpc = "wait" /\ wg = 0
    /\ mpc' = "drain"
    /\ UNCHANGED << codecVars, numCPU, workers, call, old, tree, walkFails, maxWorkers, files, tasks,
                    taskQueue, queueClosed, errChan, wg, wpc, wtask, dirs,
                    outfs, handles, faults, received, result >>

\* A mutant of the drain: the error received last is returned.
DrainedErrorLast(errors) ==
    IF errors = <<>> THEN NoError ELSE errors[Len(errors)]

\* unnamed/part_000:181-185: the first error received from errChan, nil
\* when it holds none.
DrainedError(errors) ==
    IF errors = <<>> THEN NoError ELSE Head(errors)

\* unnamed/part_000:179-185
Drain ==
    /\ mpc = "drain"
    /\ result' = DrainedError(errChan)
    /\ mpc' = "returned"
    /\ UNCHANGED << codecVars, numCPU, workers, call, old, tree, walkFails, maxWorkers, files, tasks,
                    taskQueue, queueClosed, errChan, wg, wpc, wtask, dirs,
                    outfs, handles, faults, received >>

\* ------------------------------------------------------------------------
\* FilesConverter.convert: one worker goroutine
\* ------------------------------------------------------------------------

\* A mutant of the send of an error: errChan holds one error.
SendErrorOneSlot(step, k) ==
    /\ Len(errChan) < 1
    /\ errChan' = Append(errChan, TaskError(step, k))

\* errChan <- err: the channel holds len(files) errors.
SendError(step, k) ==
    /\ Len(errChan) < Len(files)
    /\ errChan' = Append(errChan, TaskError(step, k))

\* A file operation of a task fails.
Fault ==
    /\ FaultAllowed
    /\ faults' = faults + 1

\* A mutant of the receive: a worker waits while another holds a task.
ClaimExclusive(w) ==
    /\ wpc[w] = "claim" /\ taskQueue # <<>>
    /\ \A v \in Workers :
           wpc[v] \in {"notStarted", "claim", "exited"}
    /\ wtask' = [wtask EXCEPT ![w] = Head(taskQueue).index]
    /\ taskQueue' = Tail(taskQueue)
    /\ received' = [received EXCEPT ![Head(taskQueue).index] = @ + 1]
    /\ wpc' = [wpc EXCEPT ![w] = "mkdir"]
    /\ UNCHANGED << codecVars, numCPU, workers, call, old, tree, walkFails, maxWorkers, mpc, files,
                    tasks, queueClosed, errChan, wg, dirs, outfs, handles,
                    faults, result >>

\* unnamed/part_000:134: the worker receives a task.
Claim(w) ==
    /\ wpc[w] = "claim" /\ taskQueue # <<>>
    /\ wtask' = [wtask EXCEPT ![w] = Head(taskQueue).index]
    /\ taskQueue' = Tail(taskQueue)
    /\ received' = [received EXCEPT ![Head(taskQueue).index] = @ + 1]
    /\ wpc' = [wpc EXCEPT ![w] = "mkdir"]
    /\ UNCHANGED << codecVars, numCPU, workers, call, old, tree, walkFails, maxWorkers, mpc, files,
                    tasks, queueClosed, errChan, wg, dirs, outfs, handles,
                    faults, result >>

\* unnamed/part_000:134 and :132: the range loop ends on the closed, empty
\* channel and the deferred wg.Done() runs.
WorkerExit(w) ==
    /\ wpc[w] = "claim" /\ taskQueue = <<>> /\ queueClosed
    /\ wpc' = [wpc EXCEPT ![w] = "exited"]
    /\ wtask' = [wtask EXCEPT ![w] = 0]
    /\ wg' = wg - 1
    /\ UNCHANGED << codecVars, numCPU, workers, call, old, tree, walkFails, maxWorkers, mpc, files,
                    tasks, taskQueue, queueClosed, errChan, dirs, outfs,
                    handles, faults, received, result >>

\* A mutant of the first step of a task: the directory is not made.
MkdirSkipped(w) ==
    /\ wpc[w] = "mkdir"
    /\ wpc' = [wpc EXCEPT ![w] = "open"]
    /\ UNCHANGED << codecVars, numCPU, workers, call, old, tree, walkFails, maxWorkers, mpc, files,
                    tasks, taskQueue, queueClosed, errChan, wg, wtask, dirs,
                    outfs, handles, faults, received, result >>

\* unnamed/part_000:139-143: os.MkdirAll(outputDir).
Mkdir(w) ==
    /\ wpc[w] = "mkdir"
    /\ LET task == tasks[wtask[w]]
       IN  \/ /\ dirs' = WithDirs(dirs, Dir(task.outputPath))
              /\ wpc' = [wpc EXCEPT ![w] = "open"]
              /\ UNCHANGED << errChan, faults >>
           \/ /\ Fault
              /\ SendError("mkdir", task.index)
              /\ wpc' = [wpc EXCEPT ![w] = "claim"]
              /\ UNCHANGED dirs
    /\ UNCHANGED << codecVars, numCPU, workers, call, old, tree, walkFails, maxWorkers, mpc, files,
                    tasks, taskQueue, queueClosed, wg, wtask, outfs, handles,
                    received, result >>

\* unnamed/part_000:145-149: os.Open(task.inputPath).
Open(w) ==
    /\ wpc[w] = "open"
    /\ LET task == tasks[wtask[w]]
       IN  \/ /\ handles' = handles \cup { << task.index, "in" >> }
              /\ wpc' = [wpc EXCEPT ![w] = "create"]
              /\ UNCHANGED << errChan, faults >>
           \/ /\ Fault
              /\ SendError("open", task.index)
              /\ wpc' = [wpc EXCEPT ![w] = "claim"]
              /\ UNCHANGED handles
    /\ UNCHANGED << codecVars, numCPU, workers, call, old, tree, walkFails, maxWorkers, mpc, files,
                    tasks, taskQueue, queueClosed, wg, wtask, dirs, outfs,
                    received, result >>

\* The file system with the file at path holding content.
WithFile(fs, path, content) ==
    [q \in DOMAIN fs \cup { path } |-> IF q = path THEN content ELSE fs[q]]

\* A mutant of the creation of the output: a file that exists is opened
\* as it is.
CreateKeeping(w) ==
    /\ wpc[w] = "create"
    /\ LET task == tasks[wtask[w]]
       IN  \/ /\ outfs' = IF task.outputPath \in DOMAIN outfs THEN outfs
                          ELSE WithFile(outfs, task.outputPath, EmptyFile)
              /\ handles' = handles \cup { << task.index, "out" >> }
              /\ wpc' = [wpc EXCEPT ![w] = "convert"]
              /\ UNCHANGED << errChan, faults >>
           \/ /\ Fault
              /\ handles' = handles \ { << task.index, "in" >> }
              /\ SendError("create", task.index)
              /\ wpc' = [wpc EXCEPT ![w] = "claim"]
              /\ UNCHANGED outfs
    /\ UNCHANGED << codecVars, numCPU, workers, call, old, tree, walkFails, maxWorkers, mpc, files,
                    tasks, taskQueue, queueClosed, wg, wtask, dirs, received,
                    result >>

\* unnamed/part_000:151-156: os.Create(task.outputPath) creates the file or
\* truncates it; when it fails the input is closed.
Create(w) ==
    /\ wpc[w] = "create"
    /\ LET task == tasks[wtask[w]]
       IN  \/ /\ outfs' = WithFile(outfs, task.outputPath, EmptyFile)
              /\ handles' = handles \cup { << task.index, "out" >> }
              /\ wpc' = [wpc EXCEPT ![w] = "convert"]
              /\ UNCHANGED << errChan, faults >>
           \/ /\ Fault
              /\ handles' = handles \ { << task.index, "in" >> }
              /\ SendError("create", task.index)
              /\ wpc' = [wpc EXCEPT ![w] = "claim"]
              /\ UNCHANGED outfs
    /\ UNCHANGED << codecVars, numCPU, workers, call, old, tree, walkFails, maxWorkers, mpc, files,
                    tasks, taskQueue, queueClosed, wg, wtask, dirs, received,
                    result >>

\* What the file at a path may hold after a handle opened before wrote
\* content from offset 0: content itself when the file was empty; when
\* another handle has written since the file was created, content or a
\* mixture of the two, by their lengths and the order of the writes.
Written(fs, path, content) ==
    IF fs[path] = EmptyFile THEN { content } ELSE { content, GarbledFile }

\* unnamed/part_000:158-162: convertFunc(inputFile, outputFile); on an
\* error the worker goes on to its next task.
Convert(w) ==
    /\ wpc[w] = "convert"
    /\ LET task == tasks[wtask[w]]
           r == convertFunc(call, SourceContent(call, task.relPath))
       IN  IF r.err = "nil"
           THEN /\ \E content \in Written(outfs, task.outputPath, r.out) :
                      outfs' = WithFile(outfs, task.outputPath, content)
                /\ wpc' = [wpc EXCEPT ![w] = "closeIn"]
                /\ UNCHANGED errChan
           ELSE /\ SendError("convert", task.index)
                /\ wpc' = [wpc EXCEPT ![w] = "claim"]
                /\ UNCHANGED outfs
    /\ UNCHANGED << codecVars, numCPU, workers, call, old, tree, walkFails, maxWorkers, mpc, files,
                    tasks, taskQueue, queueClosed, wg, wtask, dirs, handles,
                    faults, received, result >>

\* unnamed/part_000:164-167: inputFile.Close(); on an error the goroutine
\* returns and the deferred wg.Done() runs.
CloseIn(w) ==
    /\ wpc[w] = "closeIn"
    /\ handles' = handles \ { << wtask[w], "in" >> }
    /\ \/ /\ wpc' = [wpc EXCEPT ![w] = "closeOut"]
          /\ UNCHANGED << wg, faults >>
       \/ /\ Fault
          /\ wpc' = [wpc EXCEPT ![w] = "exited"]
          /\ wg' = wg - 1
    /\ UNCHANGED << codecVars, numCPU, workers, call, old, tree, walkFails, maxWorkers, mpc, files,
                    tasks, taskQueue, queueClosed, errChan, wtask, dirs, outfs,
                    received, result >>

\* unnamed/part_000:169-172: outputFile.Close(), likewise.
CloseOut(w) ==
    /\ wpc[w] = "closeOut"
    /\ handles' = handles \ { << wtask[w], "out" >> }
    /\ \/ /\ wpc' = [wpc EXCEPT ![w] = "claim"]
          /\ UNCHANGED << wg, faults >>
       \/ /\ Fault
          /\ wpc' = [wpc EXCEPT ![w] = "exited"]
          /\ wg' = wg - 1
    /\ UNCHANGED << codecVars, numCPU, workers, call, old, tree, walkFails, maxWorkers, mpc, files,
                    tasks, taskQueue, queueClosed, errChan, wtask, dirs, outfs,
                    received, result >>

Next ==
    \/ New
    \/ \E n \in WorkerArgs : SetMaxWorkersCall(n)
    \/ SetMaxWorkers
    \/ Walk
    \/ ReturnNoFiles
    \/ MakeRoot
    \/ Enqueue
    \/ CloseQueue
    \/ StartWorker
    \/ Wait
    \/ Drain
    \/ \E w \in Workers :
          \/ Claim(w)
          \/ WorkerExit(w)
          \/ Mkdir(w)
          \/ Open(w)
          \/ Create(w)
          \/ Convert(w)
          \/ CloseIn(w)
          \/ CloseOut(w)

Spec == BatchInit /\ [][Next]_vars

\* ------------------------------------------------------------------------
\* Properties of the codec (checked under CodecSpec)
\* ------------------------------------------------------------------------

\* C1, as the specification states it: for every bitmap, PngToData and then
\* DataToPng on the stream it wrote both succeed, and the image that comes
\* back has the bitmap's width and height and every pixel of it within
\* Tolerance in each of the four channels.
C1_RoundTripFromPng ==
    (conv.pc = "idle" /\ source.kind = "png") =>
        /\ Len(done) = 2
        /\ done[2].err = "nil"
        /\ assertImageEquals(source.png, done[2].png, Tolerance)

C9_HeaderChecks ==
    (conv.op = "DataToPng" /\ conv.pc = "done") =>
        IF Len(conv.in) < 12
        THEN conv.err # "nil" /\ conv.png = NoImage
        ELSE LET w == Int32Of(SubSeq(conv.in, 1, 4))
                 h == Int32Of(SubSeq(conv.in, 5, 8))
             IN  IF w <= 0 \/ h <= 0 \/ w > 8192 \/ h > 8192
                 THEN conv.err = "invalid image dimensions" /\ conv.png = NoImage
                 ELSE /\ conv.err # "invalid image dimensions"
                      /\ conv.img.w = w /\ conv.img.h = h

\* DataToPng has returned nil for a stream whose header gives width 8192,
\* and the image written is 8192 pixels wide.
C9_Witness ==
    /\ conv.op = "DataToPng" /\ conv.pc = "done" /\ conv.err = "nil"
    /\ Int32Of(SubSeq(conv.in, 1, 4)) = 8192
    /\ conv.png.w = 8192 /\ conv.png.h = 1

\* The complete runs at the start of a DATA body, as records of the run
\* length and the colour, read as graphics_converter.go:66-133 reads them.
RECURSIVE CompleteRuns(_, _)
CompleteRuns(body, hasAlpha) ==
    IF body = <<>> THEN <<>>
    ELSE LET n == IF body[1] = 0 THEN 256 ELSE body[1]
             rest(k) == CompleteRuns(SubSeq(body, k, Len(body)), hasAlpha)
         IN  IF hasAlpha
             THEN IF Len(body) < 2 THEN <<>>
                  ELSE IF body[2] = 0
                       THEN << [count |-> n, col |-> Colour(0, 0, 0, 0)] >> \o rest(3)
                  ELSE IF Len(body) < 5 THEN <<>>
                  ELSE << [count |-> n,
                           col |-> Colour(body[5], body[4], body[3], body[2])] >>
                           \o rest(6)
             ELSE IF Len(body) < 4 THEN <<>>
                  ELSE << [count |-> n,
                           col |-> Colour(body[4], body[3], body[2], 255)] >>
                           \o rest(5)

\* The number of pixels the first k runs cover.
RECURSIVE Covered(_, _)
Covered(runs, k) == IF k = 0 THEN 0 ELSE Covered(runs, k - 1) + runs[k].count

\* C10: when the read of a count byte reaches the end of the stream before
\* the canvas is full, DataToPng returns nil and writes an image of the
\* full width and height; every pixel a complete run covers has that run's
\* colour on the canvas, and every pixel at or past the cursor is
\* (0,0,0,0) in alpha mode and (0,0,0,255) otherwise in the image written.
C10_TruncatedAtRunBoundary ==
    (conv.op = "DataToPng" /\ conv.pc = "done" /\ conv.warned) =>
        LET w == Int32Of(SubSeq(conv.in, 1, 4))
            h == Int32Of(SubSeq(conv.in, 5, 8))
            alpha == Int32Of(SubSeq(conv.in, 9, 12)) # 0
            runs == CompleteRuns(SubSeq(conv.in, 13, Len(conv.in)), alpha)
            cursor == Covered(runs, Len(runs))
        IN  /\ conv.err = "nil"
            /\ cursor < w * h
            /\ conv.png.w = w /\ conv.png.h = h /\ Len(conv.png.pix) = w * h
            /\ \A r \in 1 .. Len(runs) :
                   \A k \in Covered(runs, r - 1) + 1 .. Covered(runs, r) :
                       conv.img.pix[k] = runs[r].col
            /\ \A k \in cursor + 1 .. w * h :
                   conv.png.pix[k] = IF alpha THEN Colour(0, 0, 0, 0)
                                     ELSE Colour(0, 0, 0, 255)

\* DataToPng has returned for an alpha-mode stream that ended after a
\* complete run and before the canvas was full.
C10_Witness ==
    /\ conv.op = "DataToPng" /\ conv.pc = "done" /\ conv.warned
    /\ conv.err = "nil" /\ conv.hasAlpha
    /\ conv.i > 0 /\ conv.i < conv.width * conv.height
    /\ conv.png.pix[1].A = 100
    /\ conv.png.pix[conv.width * conv.height] = Colour(0, 0, 0, 0)

\* ------------------------------------------------------------------------
\* Properties of a batch call (checked under Spec)
\* ------------------------------------------------------------------------

\* The tasks whose conversion call returns an error.
FailingTasks ==
    { n \in 1 .. Len(tasks) :
          convertFunc(call, SourceContent(call, tasks[n].relPath)).err # "nil" }

\* C3: once the tasks are built there is exactly one task for each entry of
\* the source tree that is a file and whose path ends with the source
\* extension, letter case ignored, and no other task; and when no file
\* operation failed and the call returned nil, a file exists at the output
\* path of every task.
C3_OneTaskPerMatchingFile ==
    queueClosed =>
        LET matching ==
                { k \in tree :
                      /\ ~ Entries(call)[k].isDir
                      /\ HasSuffix(ToLower(Entries(call)[k].rel),
                                   ToLower(FromExt(call))) }
        IN  /\ Len(tasks) = Cardinality(matching)
            /\ \A k \in matching :
                   Cardinality({ n \in 1 .. Len(tasks) :
                                     tasks[n].relPath = Entries(call)[k].rel }) = 1
            /\ (mpc = "returned" /\ result = NoError /\ faults = 0) =>
                   \A n \in 1 .. Len(tasks) : tasks[n].outputPath \in DOMAIN outfs

\* A call on a tree with a directory named like a source file and a file
\* with the extension in upper case has returned nil after two tasks.
C3_Witness ==
    /\ mpc = "returned" /\ result = NoError /\ faults = 0
    /\ call = "DataToPng" /\ tree = {1, 3, 4, 5}
    /\ Len(tasks) = 2
    /\ \A n \in 1 .. 2 : tasks[n].outputPath \in DOMAIN outfs

\* C4, as the specification states it: the output path of every task is
\* the destination root joined with the directory of the relative path and
\* the base name with the source extension taken off and the target
\* extension put on, whatever the letter case of the file's extension.
C4_OutputPathReplacesExtension ==
    \A n \in 1 .. Len(tasks) :
        LET rel == tasks[n].relPath
            base == Base(rel)
            stem == SubSeq(base, 1, Len(base) - Len(FromExt(call)))
        IN  tasks[n].outputPath = Join(Join(ToDir, Dir(rel)), stem \o ToExt(call))

\* C5, as the specification states it: when the conversion fails for
\* exactly one task and no file operation fails, the call returns an
\* error, every task was claimed, and the output file of every other task
\* holds the conversion of that task's input.
C5_OneCorruptFile ==
    (mpc = "returned" /\ queueClosed /\ faults = 0
         /\ Cardinality(FailingTasks) = 1) =>
        /\ result # NoError
        /\ \A n \in 1 .. Len(tasks) : received[n] > 0
        /\ \A n \in (1 .. Len(tasks)) \ FailingTasks :
               /\ tasks[n].outputPath \in DOMAIN outfs
               /\ outfs[tasks[n].outputPath] =
                      convertFunc(call, SourceContent(call, tasks[n].relPath)).out

\* C6: when convert returns after its workers, it returns an error exactly
\* when errChan received one, and the error it returns is the one errChan
\* received first.
C6_FirstRecordedError ==
    (mpc = "returned" /\ queueClosed) =>
        /\ (result # NoError) <=> (errChan # <<>>)
        /\ errChan # <<>> => result = errChan[1]

\* convert has returned the first of two recorded errors, and the error of
\* the task with the greater index was recorded first.
C6_Witness ==
    /\ mpc = "returned" /\ Len(errChan) = 2
    /\ errChan[1].task > errChan[2].task
    /\ result = errChan[1]

\* C7: when convert has returned, every worker it started has exited: no
\* worker holds a task at any step, and the WaitGroup counter is zero.
C7_ReturnsAfterWorkers ==
    mpc = "returned" =>
        /\ wg = 0
        /\ \A w \in Workers : wpc[w] \in {"notStarted", "exited"}
        /\ queueClosed => \A w \in 1 .. maxWorkers : wpc[w] = "exited"

\* convert has returned nil from a call with two workers and three tasks,
\* each received once.
C7_Witness ==
    /\ mpc = "returned" /\ Len(tasks) = 3 /\ maxWorkers = 2
    /\ \A w \in 1 .. 2 : wpc[w] = "exited"
    /\ \A n \in 1 .. 3 : received[n] = 1
    /\ result = NoError

\* C8, as the specification states it: no task is received twice, and when
\* convert returns after its workers every task has been received once and
\* taskQueue holds none.
C8_ClaimedExactlyOnce ==
    /\ \A n \in DOMAIN received : received[n] <= 1
    /\ (mpc = "returned" /\ queueClosed) =>
           /\ taskQueue = <<>>
           /\ \A n \in 1 .. Len(tasks) : received[n] = 1

\* ------------------------------------------------------------------------
\* Further properties of the codec (checked under CodecSpec)
\* ------------------------------------------------------------------------

\* C11, as the specification states it: once the header is accepted (12
\* bytes, width and height from 1 to 8192) DataToPng returns no error,
\* whatever the body holds and wherever it ends; a run cut after its count
\* byte, its alpha byte or 1 or 2 of its colour bytes ends the decoding
\* and the image is written.
C11_ShortRunNotAnError ==
    (conv.op = "DataToPng" /\ conv.pc = "done" /\ Len(conv.in) >= 12
         /\ Int32Of(SubSeq(conv.in, 1, 4)) \in 1 .. 8192
         /\ Int32Of(SubSeq(conv.in, 5, 8)) \in 1 .. 8192) =>
        /\ conv.err = "nil"
        /\ conv.png # NoImage

\* C12, as the specification states it: PngToData writes the alpha flag 1
\* exactly when the image it decoded has a pixel whose alpha is below
\* fully opaque, and 0 otherwise; and in a stream with flag 1 every run
\* carries the alpha of the pixels it covers.
C12_AlphaFlagWritten ==
    (conv.op = "PngToData" /\ conv.pc = "done" /\ conv.err = "nil") =>
        LET flag == Int32Of(SubSeq(conv.out, 9, 12))
            runs == CompleteRuns(SubSeq(conv.out, 13, Len(conv.out)), TRUE)
        IN  /\ flag \in {0, 1}
            /\ flag = 1 <=> \E k \in 1 .. Len(conv.src.pix) : conv.src.pix[k].A < 255
            /\ flag = 1 =>
                   \A r \in 1 .. Len(runs) :
                       \A k \in Covered(runs, r - 1) + 1 .. Covered(runs, r) :
                           runs[r].col.A = conv.src.pix[k].A

\* The runs of a DATA stream: those of its body, read in the mode its
\* header gives.
StreamRuns(out) ==
    CompleteRuns(SubSeq(out, 13, Len(out)), Int32Of(SubSeq(out, 9, 12)) # 0)

\* The count bytes of a DATA stream's runs, in order.
RECURSIVE CountBytes(_, _)
CountBytes(body, hasAlpha) ==
    IF body = <<>> THEN <<>>
    ELSE LET len == IF ~ hasAlpha THEN 4 ELSE IF body[2] = 0 THEN 2 ELSE 5
         IN  << body[1] >> \o CountBytes(SubSeq(body, len + 1, Len(body)), hasAlpha)

\* C13: PngToData writes a row of exactly 256 pixels of one colour as one
\* run with count byte 0 and a row of 257 as two runs with count bytes 0
\* and 1; no run it writes is longer than 256; and DataToPng paints 256
\* pixels for a count byte 0.
C13_RunCap ==
    /\ (conv.op = "PngToData" /\ conv.pc = "done" /\ conv.err = "nil") =>
           LET alpha == Int32Of(SubSeq(conv.out, 9, 12)) # 0
               bytes == CountBytes(SubSeq(conv.out, 13, Len(conv.out)), alpha)
               runs == StreamRuns(conv.out)
               uniform == \A k \in 1 .. Len(conv.src.pix) :
                              conv.src.pix[k] = conv.src.pix[1]
           IN  /\ Len(bytes) = Len(runs)
               /\ \A r \in 1 .. Len(runs) : runs[r].count \in 1 .. 256
               /\ Covered(runs, Len(runs)) = conv.src.w * conv.src.h
               /\ (uniform /\ Len(conv.src.pix) = 256) => bytes = << 0 >>
               /\ (uniform /\ Len(conv.src.pix) = 257) => bytes = << 0, 1 >>
    /\ (conv.op = "DataToPng" /\ conv.pc = "done" /\ conv.err = "nil"
            /\ Len(conv.in) >= (IF conv.hasAlpha THEN 14 ELSE 16)
            /\ conv.in[13] = 0
            /\ conv.width * conv.height >= 256
            /\ (conv.hasAlpha => conv.in[14] = 0)) =>
           /\ conv.i >= 256
           /\ \A k \in 1 .. 256 :
                  conv.img.pix[k] =
                      IF conv.hasAlpha THEN Colour(0, 0, 0, 0)
                      ELSE Colour(conv.in[16], conv.in[15], conv.in[14], 255)

\* PngToData has returned for a row of 257 pixels of one colour with the
\* count bytes 0 and 1, and DataToPng decoding that stream has painted the
\* 257 pixels.
C13_Witness ==
    /\ conv.pc = "idle" /\ source.kind = "png" /\ source.png.w = 257
    /\ Len(done) = 2 /\ done[2].err = "nil"
    /\ done[1].out = DataHeader(257, 1, 0) \o << 0, 10, 200, 90, 1, 10, 200, 90 >>
    /\ done[2].i = 257
    /\ \A k \in 1 .. 257 : done[2].img.pix[k] = Colour(90, 200, 10, 255)

\* C14: in alpha mode every iteration of PngToData's run loop appends 2
\* bytes (count, 0) when the run's pixels have alpha 0 and 5 bytes (count,
\* alpha, and three colour bytes) otherwise; and an iteration of
\* DataToPng's body loop that reads an alpha byte 0 advances by 2 bytes
\* and leaves (0,0,0,0) on every pixel of the run's span.
C14_AlphaRunBytes ==
    [][ /\ (conv.op = "PngToData" /\ conv.pc = "loop" /\ conv.hasAlpha) =>
              LET a == conv.img.pix[conv.i + 1].A
                  added == SubSeq(conv'.out, Len(conv.out) + 1, Len(conv'.out))
              IN  /\ SubSeq(conv'.out, 1, Len(conv.out)) = conv.out
                  /\ Len(added) = IF a = 0 THEN 2 ELSE 5
                  /\ added[2] = a
        /\ (conv.op = "DataToPng" /\ conv.pc = "loop" /\ conv.hasAlpha
                /\ Avail(conv) >= 2 /\ conv.in[conv.pos + 2] = 0) =>
              LET cb == conv.in[conv.pos + 1]
                  span == Min(IF cb = 0 THEN 256 ELSE cb,
                              conv.width * conv.height - conv.i)
              IN  /\ conv'.pos = conv.pos + 2
                  /\ conv'.i = conv.i + span
                  /\ \A k \in conv.i + 1 .. conv.i + span :
                         conv'.img.pix[k] = Colour(0, 0, 0, 0)
      ]_vars

\* PngToData has written an alpha-mode stream of a run of 2 bytes and a
\* run of 5 bytes, and DataToPng has decoded it and left (0,0,0,0) on the
\* pixel of the first.
C14_Witness ==
    /\ conv.pc = "idle" /\ source.kind = "png" /\ Len(done) = 2
    /\ done[1].hasAlpha /\ source.png.w = 2 /\ source.png.h = 1
    /\ done[1].out = DataHeader(2, 1, 1) \o << 1, 0, 1, 100, 3, 78, 35 >>
    /\ done[2].err = "nil"
    /\ done[2].img.pix[1] = Colour(0, 0, 0, 0)

\* C15: without alpha every iteration of PngToData's run loop appends 4
\* bytes, the count and the pixel's B, G, R; an iteration of DataToPng's
\* body loop that finds a whole run advances by 4 bytes and paints the
\* run's span with the colour read and alpha 255; and every pixel of the
\* canvas has alpha 255 throughout.
C15_PlainRunBytes ==
    [][ /\ (conv.op = "PngToData" /\ conv.pc = "loop" /\ ~ conv.hasAlpha) =>
              LET px == getRGBA(conv.img, conv.i % conv.width, conv.i \div conv.width)
                  added == SubSeq(conv'.out, Len(conv.out) + 1, Len(conv'.out))
              IN  /\ SubSeq(conv'.out, 1, Len(conv.out)) = conv.out
                  /\ Len(added) = 4
                  /\ SubSeq(added, 2, 4) = << px.B, px.G, px.R >>
        /\ (conv.op = "DataToPng" /\ conv.pc = "loop" /\ ~ conv.hasAlpha
                /\ Avail(conv) >= 4) =>
              LET cb == conv.in[conv.pos + 1]
                  span == Min(IF cb = 0 THEN 256 ELSE cb,
                              conv.width * conv.height - conv.i)
              IN  /\ conv'.pos = conv.pos + 4
                  /\ conv'.i = conv.i + span
                  /\ \A k \in conv.i + 1 .. conv.i + span :
                         conv'.img.pix[k] =
                             Colour(conv.in[conv.pos + 4], conv.in[conv.pos + 3],
                                    conv.in[conv.pos + 2], 255)
        /\ (conv.op = "DataToPng" /\ conv.pc = "loop" /\ ~ conv.hasAlpha) =>
              \A k \in 1 .. Len(conv'.img.pix) : conv'.img.pix[k].A = 255
      ]_vars

\* PngToData has written a stream without alpha of two runs of 4 bytes,
\* and DataToPng has decoded it to two opaque pixels.
C15_Witness ==
    /\ conv.pc = "idle" /\ source.kind = "png" /\ Len(done) = 2
    /\ ~ done[1].hasAlpha
    /\ done[1].out = DataHeader(2, 1, 0) \o << 1, 10, 200, 90, 1, 0, 0, 0 >>
    /\ done[2].err = "nil" /\ done[2].pos = 20
    /\ done[2].img.pix = << Colour(90, 200, 10, 255), Colour(0, 0, 0, 255) >>

\* ------------------------------------------------------------------------
\* Further properties of a batch call (checked under Spec)
\* ------------------------------------------------------------------------

\* C16: when the walk succeeds and no file of the source tree has the
\* source extension, letter case ignored, no worker is ever started, no
\* file of the destination is ever created or changed, and the call
\* returns nil.
C16_NothingToConvert ==
    (call # "none" /\ ~ walkFails
         /\ \A k \in tree :
                \/ Entries(call)[k].isDir
                \/ ~ HasSuffix(ToLower(Entries(call)[k].rel),
                               ToLower(FromExt(call)))) =>
        /\ \A w \in Workers : wpc[w] = "notStarted"
        /\ wg = 0
        /\ outfs = old
        /\ mpc = "returned" => result = NoError

\* A call on a tree that holds a file with another extension and a
\* directory named like a source file, and no more, has returned nil.
C16_Witness ==
    /\ mpc = "returned" /\ result = NoError /\ ~ walkFails
    /\ Cardinality(tree) = 2
    /\ \E k \in tree : Entries(call)[k].isDir
    /\ files = <<>> /\ outfs = <<>>

C18_StepFailuresRecorded ==
    [][ \A w \in Workers :
            LET failed ==
                    \/ /\ wpc[w] \in {"mkdir", "open", "create", "closeIn", "closeOut"}
                       /\ wpc'[w] # wpc[w]
                       /\ faults' = faults + 1
                    \/ /\ wpc[w] = "convert"
                       /\ wpc'[w] # wpc[w]
                       /\ wtask[w] \in FailingTasks
            IN  failed =>
                    /\ Len(errChan') = Len(errChan) + 1
                    /\ SubSeq(errChan', 1, Len(errChan)) = errChan
                    /\ errChan'[Len(errChan')].task = wtask[w]
                    /\ wpc'[w] = "claim"
      ]_vars

\* C19, as the specification states it: a file handle is open only while
\* a worker holds its task between opening the input and closing the
\* output, so a worker that receives its next task or exits has closed
\* the handles it opened; and when convert has returned no handle is open.
C19_HandlesClosed ==
    /\ \A h \in handles :
           \E w \in Workers :
               /\ wtask[w] = h[1]
               /\ wpc[w] \in {"create", "convert", "closeIn", "closeOut"}
    /\ mpc = "returned" => handles = {}

\* C20, as the specification states it: no two tasks of a batch have the
\* same output path, no task's output path is a task's input path, and no
\* two workers are in the conversion call with the same output file.
C20_OutputPathsDisjoint ==
    /\ \A n, m \in 1 .. Len(tasks) :
           /\ n # m => tasks[n].outputPath # tasks[m].outputPath
           /\ tasks[n].outputPath # tasks[m].inputPath
    /\ \A v, w \in Workers :
           (v # w /\ wpc[v] = "convert" /\ wpc[w] = "convert") =>
               tasks[wtask[v]].outputPath # tasks[wtask[w]].outputPath

\* ------------------------------------------------------------------------
\* Properties of the run loops (checked under CodecSpec)
\* ------------------------------------------------------------------------

\* C21: when PngToData returns, the runs of the stream it wrote have
\* lengths from 1 to 256 that sum to width * height; the pixels a run
\* covers, in row-major order across row ends, are equal in all four
\* channels, and the run carries their blue, green and red and, in alpha
\* mode, their alpha; and a run shorter than 256 that is not the last is
\* followed by a pixel that differs from its pixels in some channel.
C21_RunsMaximal ==
    (conv.op = "PngToData" /\ conv.pc = "done" /\ conv.err = "nil") =>
        LET runs == StreamRuns(conv.out)
            alpha == Int32Of(SubSeq(conv.out, 9, 12)) # 0
            w == conv.src.w
            px(k) == getRGBA(conv.src, (k - 1) % w, (k - 1) \div w)
        IN  /\ \A r \in 1 .. Len(runs) : runs[r].count \in 1 .. 256
            /\ Covered(runs, Len(runs)) = conv.src.w * conv.src.h
            /\ \A r \in 1 .. Len(runs) :
                   LET first == Covered(runs, r - 1) + 1
                       last == Covered(runs, r)
                   IN  /\ \A k \in first .. last :
                              /\ px(k) = px(first)
                              /\ runs[r].col.B = px(k).B
                              /\ runs[r].col.G = px(k).G
                              /\ runs[r].col.R = px(k).R
                              /\ alpha => runs[r].col.A = px(k).A
                       /\ (runs[r].count < 256 /\ r < Len(runs)) =>
                              px(last + 1) # px(first)

\* PngToData has returned for an image of two rows of two pixels whose
\* first three pixels are equal and whose last differs: a run of 3 that
\* continues across the row end, then a run of 1.
C21_Witness ==
    /\ conv.op = "PngToData" /\ conv.pc = "done" /\ conv.err = "nil"
    /\ conv.src.w = 2 /\ conv.src.h = 2
    /\ conv.src.pix[1] = conv.src.pix[2] /\ conv.src.pix[2] = conv.src.pix[3]
    /\ conv.src.pix[3] # conv.src.pix[4]
    /\ Len(StreamRuns(conv.out)) = 2
    /\ StreamRuns(conv.out)[1].count = 3
    /\ StreamRuns(conv.out)[2].count = 1

\* The bytes of the run at the read offset of a DataToPng call, <<>> when
\* the stream ends before the run does.
RunAt(c) ==
    LET len == IF ~ c.hasAlpha THEN 4
               ELSE IF Avail(c) >= 2 /\ c.in[c.pos + 2] = 0 THEN 2 ELSE 5
    IN  IF Avail(c) >= len THEN SubSeq(c.in, c.pos + 1, c.pos + len) ELSE <<>>

\* C22: in DataToPng the cursor stays from 0 to width * height and the
\* canvas keeps its width * height pixels; an iteration of the body loop
\* that finds a whole run paints min(run length, width * height - cursor)
\* pixels, those at the row-major indices from the cursor on (x = index
\* mod width, y = index div width), with red, green and blue from the
\* run's third, second and first colour byte, changes no other pixel and
\* advances the cursor by that number; an iteration that finds no whole
\* run changes neither the canvas nor the cursor; and once the cursor is
\* width * height the read offset does not move.
C22_CursorAndPaint ==
    /\ []((conv.op = "DataToPng" /\ conv.pc \in {"loop", "encode"}) =>
              /\ conv.i >= 0
              /\ conv.i <= conv.width * conv.height
              /\ conv.img.w = conv.width /\ conv.img.h = conv.height
              /\ Len(conv.img.pix) = conv.width * conv.height
              /\ (conv.pc = "loop" => conv.i < conv.width * conv.height))
    /\ [][ /\ (conv.op = "DataToPng" /\ conv.pc = "loop") =>
                 LET run == RunAt(conv)
                     length == IF run[1] = 0 THEN 256 ELSE run[1]
                     painted == Min(length, conv.width * conv.height - conv.i)
                     col == IF Len(run) = 2 THEN Colour(0, 0, 0, 0)
                            ELSE IF Len(run) = 5
                                 THEN Colour(run[5], run[4], run[3], run[2])
                            ELSE Colour(run[4], run[3], run[2], 255)
                 IN  IF run = <<>>
                     THEN conv'.img = conv.img /\ conv'.i = conv.i
                     ELSE /\ conv'.pos = conv.pos + Len(run)
                          /\ conv'.i = conv.i + painted
                          /\ \A index \in 0 .. conv.width * conv.height - 1 :
                                 At(conv'.img, index % conv.width,
                                    index \div conv.width) =
                                     IF index >= conv.i /\ index < conv.i + painted
                                     THEN col
                                     ELSE At(conv.img, index % conv.width,
                                             index \div conv.width)
           /\ (conv.op = "DataToPng" /\ conv.pc \in {"loop", "encode"}
                   /\ conv.i = conv.width * conv.height) =>
                 conv'.pos = conv.pos
         ]_vars

\* DataToPng has returned for an alpha-mode stream of two rows of two
\* pixels: a run of 1, then a run of 256 clamped to the three pixels left,
\* painted across the row end, and a last byte that was never read.
C22_Witness ==
    /\ conv.op = "DataToPng" /\ conv.pc = "done" /\ conv.err = "nil"
    /\ conv.width = 2 /\ conv.height = 2 /\ conv.hasAlpha
    /\ Len(conv.in) = 20 /\ conv.pos = 19
    /\ SubSeq(conv.in, 13, 19) = << 1, 100, 10, 200, 90, 0, 0 >>
    /\ conv.i = 4
    /\ conv.img.pix = << Colour(90, 200, 10, 100), Colour(0, 0, 0, 0),
                         Colour(0, 0, 0, 0), Colour(0, 0, 0, 0) >>

\* ------------------------------------------------------------------------
\* Properties of the worker pool (checked under Spec)
\* ------------------------------------------------------------------------

\* C23: when a worker has been started the destination root exists, one
\* task has been sent for every file found and taskQueue is closed; and
\* from the close on the list of files and the list of tasks do not
\* change, the queue stays closed, and taskQueue only loses its first
\* task to a worker.
C23_QueueReadyBeforeWorkers ==
    /\ []((\E w \in Workers : wpc[w] # "notStarted") =>
              /\ ToDir \in dirs
              /\ queueClosed
              /\ Len(tasks) = Len(files)
              /\ \A k \in 1 .. Len(tasks) :
                     tasks[k].index = k /\ tasks[k].relPath = files[k])
    /\ []((\E n \in DOMAIN received : received[n] > 0) => queueClosed)
    /\ [][ (queueClosed \/ \E w \in Workers : wpc[w] # "notStarted") =>
               /\ queueClosed'
               /\ files' = files
               /\ tasks' = tasks
               /\ \/ taskQueue' = taskQueue
                  \/ taskQueue # <<>> /\ taskQueue' = Tail(taskQueue)
         ]_vars

\* The first worker holds a task of three while the calling goroutine has
\* not yet started the second.
C23_Witness ==
    /\ mpc = "start" /\ wpc[1] = "mkdir" /\ wpc[2] = "notStarted"
    /\ Len(tasks) = 3 /\ Len(taskQueue) = 2 /\ queueClosed
    /\ ToDir \in dirs

\* The moves of a worker from one step to the next when the step
\* succeeded, in the order of unnamed/part_000:134-172.
StepOrder ==
    { << "claim", "mkdir" >>, << "mkdir", "open" >>, << "open", "create" >>,
      << "create", "convert" >>, << "convert", "closeIn" >>,
      << "closeIn", "closeOut" >>, << "closeOut", "claim" >> }

\* The moves of a worker after a step that failed, and its start and end.
StepAborts ==
    { << "notStarted", "claim" >>, << "claim", "exited" >>,
      << "mkdir", "claim" >>, << "open", "claim" >>, << "create", "claim" >>,
      << "convert", "claim" >>, << "closeIn", "exited" >>,
      << "closeOut", "exited" >> }

\* C24: a worker takes the steps of its task in the order MkdirAll, Open,
\* Create, conversion, Close of the input, Close of the output, and moves
\* to the next step only when the step before it succeeded: no file
\* operation failed in it and no error was sent; so at every step after
\* MkdirAll the task's output directory exists, at the conversion both
\* files are open and the output file exists, the handles are closed only
\* after the conversion succeeded; and errChan holds at most one error of
\* each task.
C24_StepOrder ==
    /\ [](\A w \in Workers :
              /\ wpc[w] \in {"open", "create", "convert", "closeIn", "closeOut"} =>
                     Dir(tasks[wtask[w]].outputPath) \in dirs
              /\ wpc[w] \in {"create", "convert", "closeIn"} =>
                     << wtask[w], "in" >> \in handles
              /\ wpc[w] \in {"convert", "closeIn", "closeOut"} =>
                     /\ << wtask[w], "out" >> \in handles
                     /\ tasks[wtask[w]].outputPath \in DOMAIN outfs
              /\ wpc[w] \in {"closeIn", "closeOut"} => wtask[w] \notin FailingTasks)
    /\ [](\A n \in 1 .. Len(tasks) :
              Cardinality({ k \in 1 .. Len(errChan) : errChan[k].task = n }) <= 1)
    /\ [][ \A w \in Workers :
               wpc'[w] # wpc[w] =>
                   /\ << wpc[w], wpc'[w] >> \in StepOrder \cup StepAborts
                   /\ << wpc[w], wpc'[w] >> \in StepOrder =>
                          /\ faults' = faults
                          /\ errChan' = errChan
                          /\ wpc[w] = "convert" => wtask[w] \notin FailingTasks
                   /\ (<< wpc[w], wpc'[w] >> \in StepOrder /\ wpc[w] # "claim") =>
                          wtask'[w] = wtask[w]
         ]_vars

\* A worker is closing the output of the file in the subdirectory, whose
\* output directory exists, and another task has recorded its one error.
C24_Witness ==
    /\ \E w \in Workers :
           /\ wpc[w] = "closeOut"
           /\ tasks[wtask[w]].relPath = << "s", "/", "b", ".", "d", "a", "t", "a" >>
           /\ << "o", "u", "t", "/", "s" >> \in dirs
           /\ << wtask[w], "out" >> \in handles
    /\ Len(errChan) = 1 /\ errChan[1].kind = "convert"

\* The steps at which a worker holds a task.
Busy == {"mkdir", "open", "create", "convert", "closeIn", "closeOut"}

\* C25: at most maxWorkers workers exist and at most maxWorkers tasks are
\* held at a time, no two workers hold the same task, and whatever step
\* the other workers are at, a worker at its receive can take the next
\* task of the queue or, on the closed empty queue, exit, and a worker at
\* a step of its task can take that step: a file operation can be made,
\* and errChan has room for the error of the step.
C25_BoundedPool ==
    /\ Cardinality({ w \in Workers : wpc[w] # "notStarted" }) <= maxWorkers
    /\ Cardinality({ wtask[w] : w \in { v \in Workers : wpc[v] \in Busy } })
           <= maxWorkers
    /\ \A v, w \in Workers :
           (v # w /\ wpc[v] \in Busy /\ wpc[w] \in Busy) => wtask[v] # wtask[w]
    /\ \A w \in Workers :
           /\ (wpc[w] = "claim" /\ taskQueue # <<>>) => ENABLED Claim(w)
           /\ (wpc[w] = "claim" /\ taskQueue = <<>> /\ queueClosed) =>
                  ENABLED WorkerExit(w)
           /\ wpc[w] = "mkdir" => ENABLED Mkdir(w)
           /\ wpc[w] = "open" => ENABLED Open(w)
           /\ wpc[w] = "create" => ENABLED Create(w)
           /\ wpc[w] \in Busy => Len(errChan) < Len(files)
           /\ wpc[w] = "closeIn" => ENABLED CloseIn(w)
           /\ wpc[w] = "closeOut" => ENABLED CloseOut(w)

\* While the first worker is still in the conversion call of the first
\* task, the second worker has received and finished the two other tasks
\* and has exited.
C25_Witness ==
    /\ maxWorkers = 2 /\ Len(tasks) = 3
    /\ wpc[1] = "convert" /\ wtask[1] = 1
    /\ wpc[2] = "exited"
    /\ \A n \in 1 .. 3 : received[n] = 1
    /\ taskQueue = <<>>
    /\ handles = { << 1, "in" >>, << 1, "out" >> }
    /\ errChan = <<>>

\* ------------------------------------------------------------------------
\* Termination of a batch call (checked under LiveSpec)
\* ------------------------------------------------------------------------

\* The steps of the goroutine that calls convert.
CallerStep ==
    \/ New
    \/ \E n \in WorkerArgs : SetMaxWorkersCall(n)
    \/ SetMaxWorkers
    \/ Walk
    \/ ReturnNoFiles
    \/ MakeRoot
    \/ Enqueue
    \/ CloseQueue
    \/ StartWorker
    \/ Wait
    \/ Drain

\* The steps of one worker goroutine.
WorkerStep(w) ==
    \/ Claim(w)
    \/ WorkerExit(w)
    \/ Mkdir(w)
    \/ Open(w)
    \/ Create(w)
    \/ Convert(w)
    \/ CloseIn(w)
    \/ CloseOut(w)

\* A batch call in which every goroutine that can take a step takes one in
\* the end: the scheduler runs every runnable goroutine, and every file
\* operation and conversion call returns.
LiveSpec ==
    /\ Spec
    /\ WF_vars(CallerStep)
    /\ \A w \in Workers : WF_vars(WorkerStep(w))

\* C26: the send loop always finds room in taskQueue; a worker that holds
\* a task always finds room in errChan, so that a conversion call that
\* has returned, with an error or without, is always followed by the
\* worker's next step; errChan holds at most one error of each task and
\* never more errors than there are tasks; and every call of convert
\* returns in the end.
C26_BatchReturns ==
    /\ []((mpc = "enqueue" /\ Len(tasks) < Len(files)) =>
              Len(taskQueue) < Len(files))
    /\ []((\E w \in Workers : wpc[w] \in Busy) => Len(errChan) < Len(files))
    /\ [](\A w \in Workers : wpc[w] = "convert" => ENABLED Convert(w))
    /\ [](/\ Len(errChan) <= Len(files)
          /\ \A n \in 1 .. Len(tasks) :
                 Cardinality({ k \in 1 .. Len(errChan) : errChan[k].task = n }) <= 1)
    /\ ((mpc \in {"new", "ready"} /\ maxWorkers <= MaxWorkers)
            ~> (mpc = "returned"))
    /\ ((mpc \in {"scanned", "enqueue", "start", "wait", "drain"})
            ~> (mpc = "returned"))

\* convert has returned from a call with two workers in which each of the
\* two tasks recorded an error and errChan was full.
C26_Witness ==
    /\ mpc = "returned" /\ maxWorkers = 2
    /\ Len(files) = 2 /\ Len(errChan) = 2
    /\ errChan[1].task # errChan[2].task
    /\ \A w \in Workers : wpc[w] = "exited"

\* ------------------------------------------------------------------------
\* The output file of a task (checked under Spec)
\* ------------------------------------------------------------------------

\* The steps at which the errors of task n in errChan were sent.
ErrorSteps(n) == { errChan[k].kind : k \in { j \in 1 .. Len(errChan) : errChan[j].task = n } }

\* C27: the step before the conversion call creates the task's output
\* file empty, whatever the file held, so during the call the file exists;
\* a conversion call that fails changes no file, and when convert has
\* returned the output file of a task whose conversion failed exists and
\* is empty; a worker at MkdirAll or at Open changes no file, and when
\* convert has returned the output path of a task that failed at one of
\* them, which no other task shares, holds what it held before the call:
\* no file, or the old file.
C27_CreateBeforeConvert ==
    /\ [](\A w \in Workers :
              wpc[w] = "convert" => tasks[wtask[w]].outputPath \in DOMAIN outfs)
    /\ [](mpc = "returned" =>
              \A n \in 1 .. Len(tasks) :
                  LET path == tasks[n].outputPath
                      alone == \A m \in 1 .. Len(tasks) :
                                   m # n => tasks[m].outputPath # path
                  IN  /\ "convert" \in ErrorSteps(n) =>
                             /\ path \in DOMAIN outfs
                             /\ outfs[path] = EmptyFile
                      /\ (ErrorSteps(n) \cap {"mkdir", "open"} # {} /\ alone) =>
                             /\ path \in DOMAIN outfs <=> path \in DOMAIN old
                             /\ path \in DOMAIN old => outfs[path] = old[path])
    /\ [][ \A w \in Workers :
               /\ (wpc[w] = "create" /\ wpc'[w] = "convert") =>
                      outfs' = WithFile(outfs, tasks[wtask[w]].outputPath, EmptyFile)
               /\ (wpc[w] = "convert" /\ wpc'[w] = "claim") =>
                      /\ outfs' = outfs
                      /\ tasks[wtask[w]].outputPath \in DOMAIN outfs
               /\ (wpc[w] \in {"mkdir", "open"} /\ wpc'[w] # wpc[w]) =>
                      outfs' = outfs
         ]_vars

\* convert has returned from a call on a destination with old files: the
\* task of the file DataToPng rejects recorded the error of its conversion
\* and its output file is empty; the other task failed at Open and its
\* output path still holds the old file.
C27_Witness ==
    /\ mpc = "returned" /\ call = "DataToPng" /\ old # <<>>
    /\ Len(tasks) = 2
    /\ ErrorSteps(1) = {"open"} /\ ErrorSteps(2) = {"convert"}
    /\ old[tasks[2].outputPath] = OldFile
    /\ outfs[tasks[2].outputPath] = EmptyFile
    /\ outfs[tasks[1].outputPath] = OldFile

====
